---------------------------- MODULE Spec2Model ----------------------------
(***************************************************************************)
(* Model of the audio recorder's main() (src/src/main.rs): argument        *)
(* validation, recorder set-up, the capture / silence-detection / emit     *)
(* loop, and finalization.  The capture source (pv_recorder), the WAV sink *)
(* (hound) and stdout are external collaborators: every call into them is  *)
(* modelled with its success and its failure outcome.                      *)
(*                                                                         *)
(* f32 values (rms, moving average, threshold) are modelled in fixed point *)
(* with FP units per 1.0, truncating.                                      *)
(***************************************************************************)
EXTENDS Integers, Sequences, FiniteSets, TLC

(***************************************************************************)
(* Bounds of the model.                                                    *)
(***************************************************************************)
\* frames read in one session at most
MaxFrames == 3
\* samples per frame (the builder asks for 512, main.rs:216)
FrameLen == 2
\* fixed-point units per 1.0 for the f32 values
FP == 10
MaxSilentRun == 100
MaxConstFrames == 50

\* the frames a read may return: a quiet one, a soft one and a loud one.  The
\* soft one is silence right after a loud one, and lies between the two
\* thresholds (from the updated and from the prior average) after a loud
\* and a quiet one
QuietFrame == [i \in 1..FrameLen |-> 0]
SoftFrame == [i \in 1..FrameLen |-> IF i % 2 = 1 THEN 161 ELSE -161]
LoudFrame == [i \in 1..FrameLen |-> IF i % 2 = 1 THEN -2000 ELSE 2000]
Frames == {QuietFrame, SoftFrame, LoudFrame}
\* sample rates the capture source may report
SampleRates == {1000, 16000}
\* values of --stop-silence (absent = 0)
StopSilenceArgs == {0, 2, 4}
\* values of --device; NoDevice = option absent
NoDevice == -99
DeviceArgs == {NoDevice, -1, 1}
\* number of devices the enumeration may return
DeviceCounts == {1, 2}
\* size_of::<usize>() of the build target
UsizeWidths == {4, 8}

(***************************************************************************)
(* Program constants.                                                      *)
(***************************************************************************)
LIB_ERROR == 1
USER_ERROR == 2
AUDIO_ERROR == 3
FILE_ERROR == 4

\* ALPHA = 0.1 and SILENCE_FACTOR = 0.9 as <<numerator, denominator>>
ALPHA == <<1, 10>>
SILENCE_FACTOR == <<9, 10>>

BYTE_CONFIG == 1
BYTE_FRAME == 2
BYTE_CURRENT_VERSION == 1
FRAME_LENGTH == 512

(***************************************************************************)
(* Pure helpers.                                                           *)
(***************************************************************************)
RECURSIVE to_le_bytes(_, _)
\* the n little-endian bytes of the unsigned value x
to_le_bytes(x, n) ==
    IF n = 0 THEN <<>> ELSE <<x % 256>> \o to_le_bytes(x \div 256, n - 1)

\* i16::to_le_bytes: two's complement, low byte first
i16_to_le_bytes(s) == to_le_bytes((s + 65536) % 65536, 2)

RECURSIVE ISqrtBetween(_, _, _)
ISqrtBetween(x, lo, hi) ==
    IF lo >= hi THEN lo
    ELSE LET mid == (lo + hi + 1) \div 2
         IN  IF mid * mid <= x THEN ISqrtBetween(x, mid, hi)
                               ELSE ISqrtBetween(x, lo, mid - 1)

\* floor of the square root
ISqrt(x) == ISqrtBetween(x, 0, IF x > 40000 THEN 40000 ELSE x)

RECURSIVE SumOfSquares(_)
SumOfSquares(frame) ==
    IF frame = <<>> THEN 0
    ELSE Head(frame) * Head(frame) + SumOfSquares(Tail(frame))

\* calculate_rms, in fixed point
calculate_rms(frame) ==
    ISqrt((SumOfSquares(frame) * FP * FP) \div Len(frame))

MovingAverageNoDecay(rms, avg) == (ALPHA[1] * rms) \div ALPHA[2] + avg

\* rms_moving_average after a frame of energy rms
MovingAverage(rms, avg) ==
    (ALPHA[1] * rms) \div ALPHA[2] + ((ALPHA[2] - ALPHA[1]) * avg) \div ALPHA[2]

\* dynamic_silence_threshold from the updated average
DynamicThreshold(avg) == (avg * SILENCE_FACTOR[1]) \div SILENCE_FACTOR[2]

FrameDurationMsDivideFirst(len, rate) == 1000 * (len \div rate)

\* frame_duration_ms: 1000 * len / sample_rate, truncated
FrameDurationMs(len, rate) == (1000 * len) \div rate

IsSilenceOrEqual(rms, avg) == rms <= DynamicThreshold(MovingAverage(rms, avg))

IsSilencePriorAverage(rms, avg) == rms < DynamicThreshold(avg)

\* is_silence (line 148): the average is updated first (line 140), the
\* threshold is taken from the updated average (line 143)
IsSilence(rms, avg) == rms < DynamicThreshold(MovingAverage(rms, avg))

\* silent frames in a row up to the latest frame, counted up to MaxSilentRun
RunAfter(is_silence, run) ==
    IF ~is_silence THEN 0 ELSE IF run < MaxSilentRun THEN run + 1 ELSE run

AccumulateNoReset(is_silence, acc, dur) == IF is_silence THEN acc + dur ELSE acc

\* silence_duration_ms after a frame (lines 150-162)
Accumulate(is_silence, acc, dur) == IF is_silence THEN acc + dur ELSE 0

AutoStopAnyThreshold(is_silence, acc, threshold) ==
    is_silence /\ acc >= threshold

\* the condition of the silence-driven stop (lines 150-152)
AutoStop(is_silence, acc, threshold) ==
    is_silence /\ threshold > 0 /\ acc >= threshold

DeviceGetOffByOne(id, n) == id >= 0 /\ id <= n

\* audio_devices.get(*id as usize): a negative id casts to a value above
\* every device count
DeviceGet(id, n) == id >= 0 /\ id < n

BothRequestedNever(s, o) == FALSE

\* the two checks of the output mode (lines 49 and 54)
BothRequested(s, o) == s /\ o
NeitherRequested(s, o) == ~s /\ ~o

\* whether main creates the WAV writer (line 114)
WavWanted(s) == ~s

HeaderChunksBigEndian(rate) ==
    << <<BYTE_CURRENT_VERSION, BYTE_CONFIG>>,
       [i \in 1..4 |-> to_le_bytes(rate, 4)[5 - i]] >>

\* the chunks written for the stream header (lines 128-131)
HeaderChunks(rate) ==
    << <<BYTE_CURRENT_VERSION, BYTE_CONFIG>>, to_le_bytes(rate, 4) >>

\* the chunks written for one frame in streaming mode (lines 179-185)
FrameChunks(frame, is_silence, width) ==
    << <<BYTE_FRAME>>, <<IF is_silence THEN 1 ELSE 0>>,
       to_le_bytes(Len(frame), width) >>
    \o [i \in 1..Len(frame) |-> i16_to_le_bytes(frame[i])]

RECURSIVE Concat(_)
Concat(chunks) ==
    IF chunks = <<>> THEN <<>> ELSE Head(chunks) \o Concat(Tail(chunks))

FinalOpsNoFlush == <<"finalize">>

\* the operations of finalization on the WAV sink (lines 195-204)
FinalOps == <<"flush", "finalize">>

(***************************************************************************)
(* State.                                                                  *)
(***************************************************************************)
VARIABLES
    pc,                  \* position in main
    args,                \* the parsed command line
    usize_bytes,         \* width of usize on the build target
    exitCode,            \* -1 while running, else the process exit status
    failure,             \* the operation whose failure ended the process
    IS_RUNNING,          \* the static flag the Ctrl-C handler clears
    handlerSet,          \* ctrlc::set_handler succeeded
    recorder,            \* none / builder / initialized / recording / stopped
    frame_length,        \* samples per frame the recorder was built for
    enumerated,          \* get_available_devices succeeded
    numDevices,          \* length of audio_devices
    sample_rate,
    wav_writer,          \* unset / Some / None
    fileOpened,          \* the output file was opened (created)
    silence_threshold_ms,
    silence_duration_ms,
    rms_moving_average,
    out,                 \* bytes written to stdout
    diag,                \* the diagnostics written to stderr
    wavSamples,          \* samples written to the WAV sink
    wavOps,              \* calls that succeeded on the WAV sink, in order
    framesRead,          \* frames returned by recorder.read(), in order
    silenceFlags,        \* is_silence of each frame read, in order
    silentRun,           \* silent frames in a row up to the latest frame
    routed,              \* frames that passed the routing step, with their flag
    stopCalls,           \* calls of recorder.stop()
    headerWrites         \* executions of the header block

ctlVars == <<pc, exitCode, failure>>
cfgVars == <<args, usize_bytes>>
sigVars == <<IS_RUNNING, handlerSet>>
recVars == <<recorder, frame_length, enumerated, numDevices, sample_rate, stopCalls>>
detVars == <<silence_threshold_ms, silence_duration_ms, rms_moving_average>>
sinkVars == <<wav_writer, fileOpened, wavSamples, wavOps>>
outVars == <<out, headerWrites, diag>>
histVars == <<framesRead, silenceFlags, silentRun, routed>>
vars == <<ctlVars, cfgVars, sigVars, recVars, detVars, sinkVars, outVars, histVars>>

Args == [stream: BOOLEAN, output: BOOLEAN, list: BOOLEAN,
         device: DeviceArgs, stop_silence: StopSilenceArgs]

Init ==
    /\ pc = "validate"
    /\ args \in Args
    /\ usize_bytes \in UsizeWidths
    /\ exitCode = -1
    /\ failure = "none"
    /\ IS_RUNNING = TRUE
    /\ handlerSet = FALSE
    /\ recorder = "none"
    /\ frame_length = 0
    /\ enumerated = FALSE
    /\ numDevices = 0
    /\ sample_rate = 0
    /\ wav_writer = "unset"
    /\ fileOpened = FALSE
    /\ silence_threshold_ms = 0
    /\ silence_duration_ms = 0
    /\ rms_moving_average = 0
    /\ out = <<>>
    /\ diag = {}
    /\ wavSamples = <<>>
    /\ wavOps = <<>>
    /\ framesRead = <<>>
    /\ silenceFlags = <<>>
    /\ silentRun = 0
    /\ routed = <<>>
    /\ stopCalls = 0
    /\ headerWrites = 0

\* std::process::exit(code) after the failure of the operation why
Exit(code, why) ==
    /\ pc' = "exited"
    /\ exitCode' = code
    /\ failure' = why

Goto(next) ==
    /\ pc' = next
    /\ UNCHANGED <<exitCode, failure>>

DiagChannelStdout == "stdout"

\* the channel of every diagnostic: all of them are eprintln!
DiagChannel == "stderr"

\* a diagnostic line on stdout, abridged to the newline that ends it
LineBytes(lines) == [i \in 1..Cardinality(lines) |-> 10]

\* the bytes data go to stdout (write_to_stdout), then the diagnostics lines
\* are printed
Emit(data, lines) ==
    /\ out' = out \o data \o (IF DiagChannel = "stdout" THEN LineBytes(lines) ELSE <<>>)
    /\ diag' = diag \cup (IF DiagChannel = "stderr" THEN lines ELSE {})

(***************************************************************************)
(* Set-up, lines 49-132.                                                   *)
(***************************************************************************)
\* lines 49-57
Validate ==
    /\ pc = "validate"
    /\ IF BothRequested(args.stream, args.output)
          THEN Exit(USER_ERROR, "args_both") /\ Emit(<<>>, {"args_both"})
          ELSE IF NeitherRequested(args.stream, args.output)
                 THEN Exit(USER_ERROR, "args_neither") /\ Emit(<<>>, {"args_neither"})
                 ELSE Goto("builder") /\ Emit(<<>>, {})
    /\ UNCHANGED <<cfgVars, sigVars, recVars, detVars, sinkVars, headerWrites, histVars>>

\* line 59 and create_recorder_builder: --lib given, or determine_library_path
CreateRecorderBuilder ==
    /\ pc = "builder"
    /\ \E libGiven \in BOOLEAN, pathOk \in BOOLEAN :
          IF libGiven \/ pathOk
            THEN /\ Goto("devices")
                 /\ recorder' = "builder"
                 /\ frame_length' = FrameLen
                 /\ Emit(<<>>, {"using_library"})
            ELSE /\ Exit(LIB_ERROR, "lib_path")
                 /\ Emit(<<>>, {"lib_path"})
                 /\ UNCHANGED <<recorder, frame_length>>
    /\ UNCHANGED <<cfgVars, sigVars, enumerated, numDevices, sample_rate, stopCalls,
                   detVars, sinkVars, headerWrites, histVars>>

\* lines 61-67
GetDevices ==
    /\ pc = "devices"
    /\ \/ \E n \in DeviceCounts :
             /\ numDevices' = n
             /\ enumerated' = TRUE
             /\ Goto("list")
             /\ Emit(<<>>, {})
       \/ /\ Exit(AUDIO_ERROR, "enumerate")
          /\ Emit(<<>>, {"enumerate"})
          /\ UNCHANGED <<enumerated, numDevices>>
    /\ UNCHANGED <<cfgVars, sigVars, recorder, frame_length, sample_rate, stopCalls,
                   detVars, sinkVars, headerWrites, histVars>>

\* lines 69-74: --list prints the devices and returns
ListDevices ==
    /\ pc = "list"
    /\ IF args.list
          THEN /\ pc' = "done" /\ exitCode' = 0 /\ UNCHANGED failure
               /\ Emit(<<>>, {"device_list"})
          ELSE Goto("select") /\ Emit(<<>>, {})
    /\ UNCHANGED <<cfgVars, sigVars, recVars, detVars, sinkVars, headerWrites, histVars>>

\* lines 76-86
SelectDevice ==
    /\ pc = "select"
    /\ IF args.device # NoDevice /\ ~DeviceGet(args.device, numDevices)
          THEN /\ Exit(USER_ERROR, "device_index")
               /\ Emit(<<>>, {"device_index"})
               /\ UNCHANGED silence_threshold_ms
          ELSE /\ Goto("handler")
               /\ Emit(<<>>, IF args.device # NoDevice THEN {"using_device"} ELSE {})
               /\ silence_threshold_ms' = args.stop_silence
    /\ UNCHANGED <<cfgVars, sigVars, recVars, silence_duration_ms, rms_moving_average,
                   sinkVars, headerWrites, histVars>>

\* lines 88-94
SetHandler ==
    /\ pc = "handler"
    /\ \/ handlerSet' = TRUE /\ Goto("init") /\ Emit(<<>>, {})
       \/ /\ Exit(FILE_ERROR, "ctrlc_handler")
          /\ Emit(<<>>, {"ctrlc_handler"})
          /\ UNCHANGED handlerSet
    /\ UNCHANGED <<cfgVars, IS_RUNNING, recVars, detVars, sinkVars, headerWrites, histVars>>

\* lines 96-102
InitRecorder ==
    /\ pc = "init"
    /\ \/ recorder' = "initialized" /\ Goto("start") /\ Emit(<<>>, {})
       \/ Exit(AUDIO_ERROR, "init") /\ Emit(<<>>, {"init"}) /\ UNCHANGED recorder
    /\ UNCHANGED <<cfgVars, sigVars, frame_length, enumerated, numDevices, sample_rate,
                   stopCalls, detVars, sinkVars, headerWrites, histVars>>

\* lines 104-112
StartRecorder ==
    /\ pc = "start"
    /\ \/ \E r \in SampleRates :
             /\ recorder' = "recording"
             /\ sample_rate' = r
             /\ Goto("wav")
             /\ Emit(<<>>, {"starting"})
       \/ /\ Exit(AUDIO_ERROR, "start")
          /\ Emit(<<>>, {"starting", "start"})
          /\ UNCHANGED <<recorder, sample_rate>>
    /\ UNCHANGED <<cfgVars, sigVars, frame_length, enumerated, numDevices, stopCalls,
                   detVars, sinkVars, headerWrites, histVars>>

\* lines 114-118 and create_wav_writer
CreateWavWriter ==
    /\ pc = "wav"
    /\ IF WavWanted(args.stream)
          THEN IF ~args.output
                 THEN /\ Exit(USER_ERROR, "no_output")
                      /\ Emit(<<>>, {"no_output"})
                      /\ UNCHANGED <<wav_writer, fileOpened>>
                 ELSE \/ /\ Exit(FILE_ERROR, "file_open")
                         /\ Emit(<<>>, {"file_open"})
                         /\ UNCHANGED <<wav_writer, fileOpened>>
                      \/ /\ Exit(AUDIO_ERROR, "wav_create")
                         /\ Emit(<<>>, {"wav_create"})
                         /\ fileOpened' = TRUE
                         /\ UNCHANGED wav_writer
                      \/ /\ Goto("header")
                         /\ Emit(<<>>, {})
                         /\ fileOpened' = TRUE
                         /\ wav_writer' = "Some"
          ELSE /\ Goto("header")
               /\ Emit(<<>>, {})
               /\ wav_writer' = "None"
               /\ UNCHANGED fileOpened
    /\ UNCHANGED <<cfgVars, sigVars, recVars, detVars, wavSamples, wavOps,
                   headerWrites, histVars>>

\* lines 127-132: k chunks are written before a write fails
WriteHeader ==
    /\ pc = "header"
    /\ IF wav_writer = "None"
          THEN \E k \in 0..Len(HeaderChunks(sample_rate)) :
                 /\ headerWrites' = headerWrites + 1
                 /\ IF k = Len(HeaderChunks(sample_rate))
                       THEN /\ Goto("loop")
                            /\ Emit(Concat(HeaderChunks(sample_rate)), {})
                       ELSE /\ Exit(FILE_ERROR, "stdout_write")
                            /\ Emit(Concat(SubSeq(HeaderChunks(sample_rate), 1, k)),
                                    {"stdout_write"})
          ELSE Goto("loop") /\ UNCHANGED outVars
    /\ UNCHANGED <<cfgVars, sigVars, recVars, detVars, sinkVars, histVars>>

(***************************************************************************)
(* The capture loop, lines 134-193.                                        *)
(***************************************************************************)
RouteToWavNever(w) == FALSE

\* which branch of the routing step runs (line 164)
RouteToWav(w) == w = "Some"

AfterStopReadAgain == "read"

\* where the break of line 158 leads
AfterStop == "finalize"

WavFrameOpsNoFlush(n) == [i \in 1..n |-> "write"]

\* the calls on the WAV sink for a frame of n samples (lines 165-174)
WavFrameOps(n) == [i \in 1..n |-> "write"] \o <<"flush">>

WavFrameSamplesSkipFirst(frame) == Tail(frame)

\* the samples of a frame handed to writer.write_sample (lines 165-166)
WavFrameSamples(frame) == frame

\* line 134: while recorder.is_recording()
LoopCheck ==
    /\ pc = "loop"
    /\ IF recorder = "recording" THEN Goto("read") ELSE Goto("finalize")
    /\ UNCHANGED <<cfgVars, sigVars, recVars, detVars, sinkVars, outVars, histVars>>

\* lines 152-159: recorder.stop() and break
StopOnSilence ==
    /\ stopCalls' = stopCalls + 1
    /\ \/ /\ recorder' = "stopped"
          /\ Goto(AfterStop)
          /\ Emit(<<>>, {"stopping_silence"})
       \/ /\ Exit(AUDIO_ERROR, "stop")
          /\ Emit(<<>>, {"stopping_silence", "stop"})
          /\ UNCHANGED recorder
    /\ UNCHANGED <<sinkVars, headerWrites, routed>>

\* lines 164-174: k samples are written before a write fails, then the flush
RouteWav(frame, is_silence) ==
    /\ LET samples == WavFrameSamples(frame)
           n == Len(samples)
       IN  \E k \in 0..n, flushOk \in BOOLEAN :
             /\ wavSamples' = wavSamples \o SubSeq(samples, 1, k)
             /\ IF k < n
                  THEN /\ flushOk
                       /\ wavOps' = wavOps \o SubSeq(WavFrameOps(n), 1, k)
                       /\ Exit(FILE_ERROR, "wav_write")
                       /\ Emit(<<>>, {"wav_write"})
                       /\ UNCHANGED routed
                  ELSE IF flushOk
                         THEN /\ wavOps' = wavOps \o WavFrameOps(n)
                              /\ Goto("loop")
                              /\ Emit(<<>>, {})
                              /\ routed' = Append(routed, [silence |-> is_silence, samples |-> frame])
                         ELSE /\ wavOps' = wavOps \o SubSeq(WavFrameOps(n), 1, n)
                              /\ Exit(FILE_ERROR, "wav_flush")
                              /\ Emit(<<>>, {"wav_flush"})
                              /\ UNCHANGED routed
    /\ UNCHANGED <<wav_writer, fileOpened, headerWrites, recorder, stopCalls>>

\* lines 176-185: k chunks are written before a write fails
RouteStream(frame, is_silence) ==
    /\ LET chunks == FrameChunks(frame, is_silence, usize_bytes)
       IN  \E k \in 0..Len(chunks) :
             IF k = Len(chunks)
               THEN /\ Goto("loop")
                    /\ Emit(Concat(chunks), {})
                    /\ routed' = Append(routed, [silence |-> is_silence, samples |-> frame])
               ELSE /\ Exit(FILE_ERROR, "stdout_write")
                    /\ Emit(Concat(SubSeq(chunks, 1, k)), {"stdout_write"})
                    /\ UNCHANGED routed
    /\ UNCHANGED <<sinkVars, headerWrites, recorder, stopCalls>>

\* lines 136-187: one frame through the detector, the accumulator, the
\* auto-stop decision and the routing step
OnFrame(frame) ==
    LET rms == calculate_rms(frame)
        avg == MovingAverage(rms, rms_moving_average)
        dur == FrameDurationMs(Len(frame), sample_rate)
        is_silence == IsSilence(rms, rms_moving_average)
        acc == Accumulate(is_silence, silence_duration_ms, dur)
    IN  /\ framesRead' = Append(framesRead, frame)
        /\ silenceFlags' = Append(silenceFlags, is_silence)
        /\ silentRun' = RunAfter(is_silence, silentRun)
        /\ rms_moving_average' = avg
        /\ silence_duration_ms' = acc
        /\ IF AutoStop(is_silence, acc, silence_threshold_ms)
              THEN StopOnSilence
              ELSE IF RouteToWav(wav_writer)
                     THEN RouteWav(frame, is_silence)
                     ELSE RouteStream(frame, is_silence)

\* lines 135-192: the blocking read and the processing of its frame
ReadFrame ==
    /\ pc = "read"
    /\ \/ /\ Len(framesRead) < MaxFrames
          /\ \E frame \in Frames : OnFrame(frame)
       \/ /\ Exit(AUDIO_ERROR, "read")
          /\ Emit(<<>>, {"read"})
          /\ UNCHANGED <<recorder, stopCalls, silence_duration_ms, rms_moving_average,
                         sinkVars, headerWrites, histVars>>
    /\ UNCHANGED <<cfgVars, sigVars, frame_length, enumerated, numDevices, sample_rate,
                   silence_threshold_ms>>

(***************************************************************************)
(* Finalization, lines 195-205: the first k operations succeed.            *)
(***************************************************************************)
Finalize ==
    /\ pc = "finalize"
    /\ IF wav_writer = "Some"
          THEN \E k \in 0..Len(FinalOps) :
                 /\ wavOps' = wavOps \o SubSeq(FinalOps, 1, k)
                 /\ IF k = Len(FinalOps)
                       THEN /\ pc' = "done" /\ exitCode' = 0 /\ UNCHANGED failure
                            /\ Emit(<<>>, {"done"})
                       ELSE /\ Exit(FILE_ERROR, "final_" \o FinalOps[k + 1])
                            /\ Emit(<<>>, {"final_" \o FinalOps[k + 1]})
          ELSE /\ pc' = "done" /\ exitCode' = 0
               /\ Emit(<<>>, {"done"})
               /\ UNCHANGED <<failure, wavOps>>
    /\ UNCHANGED <<cfgVars, sigVars, recVars, detVars, wav_writer, fileOpened,
                   wavSamples, headerWrites, histVars>>

(***************************************************************************)
(* The environment.                                                        *)
(***************************************************************************)
\* lines 88-91: the Ctrl-C handler, on its own thread, once it is installed
CtrlC ==
    /\ handlerSet
    /\ pc \notin {"done", "exited"}
    /\ IS_RUNNING' = FALSE
    /\ Emit(<<>>, {"ctrlc"})
    /\ UNCHANGED <<ctlVars, cfgVars, handlerSet, recVars, detVars, sinkVars,
                   headerWrites, histVars>>

\* the capture source stops recording by itself; main sees it at line 134
SourceHalt ==
    /\ pc = "loop"
    /\ recorder = "recording"
    /\ recorder' = "stopped"
    /\ UNCHANGED <<ctlVars, cfgVars, sigVars, frame_length, enumerated, numDevices,
                   sample_rate, stopCalls, detVars, sinkVars, outVars, histVars>>

Next ==
    \/ Validate
    \/ CreateRecorderBuilder
    \/ GetDevices
    \/ ListDevices
    \/ SelectDevice
    \/ SetHandler
    \/ InitRecorder
    \/ StartRecorder
    \/ CreateWavWriter
    \/ WriteHeader
    \/ LoopCheck
    \/ ReadFrame
    \/ Finalize
    \/ CtrlC
    \/ SourceHalt

Spec == Init /\ [][Next]_vars

(***************************************************************************)
(* The capture loop with the verdict of the detector as an input: the      *)
(* accumulator, the auto-stop decision, the loop condition and             *)
(* finalization, for the frame length the recorder is built with and for   *)
(* time-outs that take many frames to reach.  The session starts at the    *)
(* head of the loop (line 134) with nothing captured yet.                  *)
(***************************************************************************)
AccFrameLengths == {FrameLen, FRAME_LENGTH}
AccStopSilenceArgs == (StopSilenceArgs \ {0}) \cup {3000}
\* the rates of the capture source, and one above 1000 * FRAME_LENGTH
AccSampleRates == SampleRates \cup {1024000}

AccInit ==
    /\ pc = "loop"
    /\ \E stream \in BOOLEAN, t \in AccStopSilenceArgs :
          /\ args = [stream |-> stream, output |-> ~stream, list |-> FALSE,
                     device |-> NoDevice, stop_silence |-> t]
          /\ silence_threshold_ms = t
          /\ wav_writer = (IF stream THEN "None" ELSE "Some")
          /\ fileOpened = ~stream
          /\ headerWrites = (IF stream THEN 1 ELSE 0)
          /\ \E r \in AccSampleRates :
                /\ sample_rate = r
                /\ out = (IF stream THEN Concat(HeaderChunks(r)) ELSE <<>>)
    /\ usize_bytes \in UsizeWidths
    /\ exitCode = -1
    /\ failure = "none"
    /\ IS_RUNNING = TRUE
    /\ handlerSet = TRUE
    /\ recorder = "recording"
    /\ frame_length \in AccFrameLengths
    /\ enumerated = TRUE
    /\ numDevices \in DeviceCounts
    /\ silence_duration_ms = 0
    /\ rms_moving_average = 0
    /\ diag = {"using_library", "starting"}
    /\ wavSamples = <<>>
    /\ wavOps = <<>>
    /\ framesRead = <<>>
    /\ silenceFlags = <<>>
    /\ silentRun = 0
    /\ routed = <<>>
    /\ stopCalls = 0

\* lines 135-192 for a frame of frame_length samples that the detector
\* classifies as is_silence; the samples themselves are not kept
AccFrame(is_silence) ==
    LET dur == FrameDurationMs(frame_length, sample_rate)
        acc == Accumulate(is_silence, silence_duration_ms, dur)
    IN  /\ silentRun' = RunAfter(is_silence, silentRun)
        /\ silence_duration_ms' = acc
        /\ IF AutoStop(is_silence, acc, silence_threshold_ms)
              THEN StopOnSilence
              ELSE /\ Goto("loop")
                   /\ UNCHANGED <<recorder, stopCalls, sinkVars, outVars, routed>>
        /\ UNCHANGED <<framesRead, silenceFlags, rms_moving_average>>

AccRead ==
    /\ pc = "read"
    /\ \/ \E is_silence \in BOOLEAN : AccFrame(is_silence)
       \/ /\ Exit(AUDIO_ERROR, "read")
          /\ Emit(<<>>, {"read"})
          /\ UNCHANGED <<recorder, stopCalls, silence_duration_ms, rms_moving_average,
                         sinkVars, headerWrites, histVars>>
    /\ UNCHANGED <<cfgVars, sigVars, frame_length, enumerated, numDevices, sample_rate,
                   silence_threshold_ms>>

AccNext ==
    \/ LoopCheck
    \/ AccRead
    \/ Finalize

SpecAcc == AccInit /\ [][AccNext]_vars

\* the main thread keeps running: each of its steps is taken eventually
SpecAccFair ==
    SpecAcc /\ WF_vars(LoopCheck) /\ WF_vars(AccRead) /\ WF_vars(Finalize)


(***************************************************************************)
(* The capture loop fed by a constant signal: every read returns the frame *)
(* the first read returned, for up to MaxConstFrames frames.               *)
(***************************************************************************)
ConstInit ==
    /\ AccInit
    /\ frame_length = FrameLen

ConstRead ==
    /\ pc = "read"
    /\ \/ /\ Len(framesRead) < MaxConstFrames
          /\ \E frame \in Frames :
                /\ IF framesRead = <<>> THEN TRUE
                      ELSE frame = framesRead[Len(framesRead)]
                /\ OnFrame(frame)
       \/ /\ Exit(AUDIO_ERROR, "read")
          /\ Emit(<<>>, {"read"})
          /\ UNCHANGED <<recorder, stopCalls, silence_duration_ms, rms_moving_average,
                         sinkVars, headerWrites, histVars>>
    /\ UNCHANGED <<cfgVars, sigVars, frame_length, enumerated, numDevices, sample_rate,
                   silence_threshold_ms>>

ConstNext ==
    \/ LoopCheck
    \/ ConstRead
    \/ Finalize
    \/ SourceHalt

SpecConst == ConstInit /\ [][ConstNext]_vars

(***************************************************************************)
(* Properties.                                                             *)
(***************************************************************************)
InLoop == pc \in {"loop", "read"}
Streaming == args.stream /\ ~args.output
FileMode == args.output /\ ~args.stream

\* C1: once the Ctrl-C handler has cleared IS_RUNNING, the capture loop
\* starts no further read: from the head of the loop it goes on to stop the
\* capture source and to finalization, never to another blocking read.
C1_CancelStartsNoRead ==
    [][(~IS_RUNNING /\ pc = "loop") => pc' # "read"]_vars

\* C2: a frame makes the loop issue the silence-driven stop() if and only if
\* the timeout is > 0 and the accumulator, updated for that frame, is >= the
\* timeout; with timeout 0 the stop is never issued.
C2_AutoStopIff ==
    [][Len(framesRead') = Len(framesRead) + 1 =>
         /\ (stopCalls' = stopCalls + 1) <=>
               (silence_threshold_ms > 0 /\ silence_duration_ms' >= silence_threshold_ms)
         /\ (stopCalls' # stopCalls + 1) => stopCalls' = stopCalls
         /\ silence_threshold_ms = 0 => stopCalls' = 0]_vars

\* a session whose stop() was issued on a second silent frame in a row
C2_Witness ==
    /\ stopCalls = 1
    /\ silence_threshold_ms = 4
    /\ silence_duration_ms >= silence_threshold_ms
    /\ Len(framesRead) = 3

\* C3: in streaming mode every frame read is emitted as one FrameRecord, in
\* capture order, the frame on which the silence stop fires included: at the
\* normal end of a session the records are as many as the frames read and
\* the i-th record carries the i-th frame.
C3_EveryFrameEmitted ==
    (Streaming /\ pc = "done") =>
        /\ Len(routed) = Len(framesRead)
        /\ \A i \in 1..Len(routed) : routed[i].samples = framesRead[i]

OpIndices(op) == {i \in 1..Len(wavOps) : wavOps[i] = op}

\* C4: in file mode the WAV sink is finalized at most once, only after the
\* loop has been left, as the last operation on the sink and right after a
\* flush of its own; every session that ends normally, whatever made the
\* loop exit, has run that flush and that finalize.
C4_FinalizationOnce ==
    FileMode =>
        /\ Cardinality(OpIndices("finalize")) <= 1
        /\ \A i \in OpIndices("finalize") :
              /\ i = Len(wavOps)
              /\ i > 1
              /\ wavOps[i - 1] = "flush"
              /\ pc = "done"
        /\ (pc = "done" /\ wav_writer = "Some") =>
              /\ OpIndices("finalize") = {Len(wavOps)}
              /\ Cardinality(OpIndices("flush")) = Len(routed) + 1
              /\ Cardinality(OpIndices("write")) = Len(wavSamples)
        /\ pc = "finalize" => ~InLoop /\ OpIndices("finalize") = {}

\* a file session ended by the silence stop, with frames in the file
C4_Witness ==
    /\ FileMode
    /\ pc = "done"
    /\ stopCalls = 1
    /\ Len(wavSamples) > 0
    /\ wavOps[Len(wavOps)] = "finalize"

\* the header block has run and the session is at or past the loop
PastHeader ==
    \/ pc \in {"loop", "read", "finalize"}
    \/ pc = "done" /\ wav_writer # "unset"
    \/ framesRead # <<>>

\* C5: in streaming mode the header (version, config marker, sample rate as
\* 32-bit little-endian) is written once, before the first read and before
\* any frame record, also when no frame is captured; in file mode nothing is
\* ever written to the output channel.
C5_HeaderOnceFirst ==
    /\ headerWrites <= 1
    /\ (Streaming /\ PastHeader) =>
          /\ headerWrites = 1
          /\ Len(out) >= 6
          /\ out[1] = BYTE_CURRENT_VERSION
          /\ out[2] = BYTE_CONFIG
          /\ out[3] = sample_rate % 256
          /\ out[4] = (sample_rate \div 256) % 256
          /\ out[5] = (sample_rate \div 65536) % 256
          /\ out[6] = (sample_rate \div 16777216) % 256
    /\ (Streaming /\ Len(out) <= 6) => (framesRead = <<>> \/ routed = <<>>)
    /\ (Streaming /\ headerWrites = 0) => (out = <<>> /\ framesRead = <<>>)
    /\ ~Streaming => (out = <<>> /\ headerWrites = 0)

\* a streaming session that ended normally without a single frame
C5_Witness ==
    /\ Streaming
    /\ pc = "done"
    /\ framesRead = <<>>
    /\ Len(out) = 6
    /\ sample_rate = 16000

(***************************************************************************)
(* A reader of the documented grammar (lines 30-37):                       *)
(*   header = version:u8 config:u8 sampleRate:u32 LE                       *)
(*   frame  = marker:u8 silence:u8 sampleCount:u32 LE, sampleCount i16 LE  *)
(***************************************************************************)
ReadU32(b, i) == b[i] + 256 * b[i + 1] + 65536 * b[i + 2] + 16777216 * b[i + 3]

ReadI16(b, i) ==
    LET u == b[i] + 256 * b[i + 1] IN IF u >= 32768 THEN u - 65536 ELSE u

RECURSIVE ReadFrames(_, _)
ReadFrames(b, i) ==
    IF i > Len(b) THEN [ok |-> TRUE, frames |-> <<>>]
    ELSE IF i + 5 > Len(b) \/ b[i] # 2 \/ b[i + 1] \notin {0, 1}
                           \/ b[i + 5] >= 128
      THEN [ok |-> FALSE, frames |-> <<>>]
      ELSE LET n == ReadU32(b, i + 2)
               next == i + 6 + 2 * n
           IN  IF next - 1 > Len(b)
                 THEN [ok |-> FALSE, frames |-> <<>>]
                 ELSE LET rest == ReadFrames(b, next)
                      IN  [ok |-> rest.ok,
                           frames |->
                             << [silence |-> b[i + 1] = 1,
                                 samples |-> [k \in 1..n |-> ReadI16(b, i + 6 + 2 * (k - 1))]] >>
                             \o rest.frames]

ReadStream(b) ==
    IF Len(b) < 6 \/ b[1] # 1 \/ b[2] # 1 \/ b[6] >= 128
      THEN [ok |-> FALSE, rate |-> 0, frames |-> <<>>]
      ELSE LET r == ReadFrames(b, 7)
           IN  [ok |-> r.ok, rate |-> ReadU32(b, 3), frames |-> IF r.ok THEN r.frames ELSE <<>>]

\* C6: decoding the bytes of a streaming session with the documented grammar
\* gives back the sample rate, the number of frames, the silence flags and
\* the samples that were encoded.
C6_RoundTrip ==
    (Streaming /\ pc \in {"loop", "finalize", "done"} /\ wav_writer = "None") =>
        ReadStream(out) = [ok |-> TRUE, rate |-> sample_rate, frames |-> routed]

\* the samples of the routed frames, in order
RoutedSamples == Concat([i \in 1..Len(routed) |-> routed[i].samples])

\* the session has reached the capture loop
ReachedLoop ==
    \/ pc \in {"loop", "read", "finalize"}
    \/ pc = "done" /\ wav_writer # "unset"

\* C7: a session that reaches the capture loop has exactly one output mode
\* and keeps it: either the WAV sink exists, holds every routed frame and
\* stdout is empty, or there is no WAV sink and every routed frame is on
\* stdout; never both, never neither.
C7_OneOutputMode ==
    /\ [](ReachedLoop =>
            \/ /\ wav_writer = "Some"
               /\ FileMode
               /\ out = <<>>
               /\ wavSamples = RoutedSamples
            \/ /\ wav_writer = "None"
               /\ Streaming
               /\ wavSamples = <<>> /\ wavOps = <<>> /\ ~fileOpened
               /\ Len(out) = 6 + Len(routed) * (2 + usize_bytes + 2 * FrameLen))
    /\ [](wav_writer = "Some" => out = <<>>)
    /\ [](wav_writer = "None" => wavSamples = <<>>)
    /\ [][wav_writer # "unset" => wav_writer' = wav_writer]_vars

\* a file session back at the head of the loop with two frames in the sink
C7_Witness ==
    /\ pc = "loop"
    /\ wav_writer = "Some"
    /\ Len(routed) = 2
    /\ Len(wavSamples) = 2 * FrameLen

\* C8: with both --stream and --output the program exits with the user
\* error status straight from the validation: no device enumeration, no
\* recorder, no handler, no output file and no byte on stdout.
C8_BothModesNoIO ==
    (args.stream /\ args.output) =>
        /\ pc \in {"validate", "exited"}
        /\ pc = "exited" => (exitCode = USER_ERROR /\ failure = "args_both")
        /\ recorder = "none"
        /\ ~enumerated
        /\ ~handlerSet
        /\ ~fileOpened /\ wav_writer = "unset" /\ wavOps = <<>>
        /\ out = <<>> /\ headerWrites = 0
        /\ framesRead = <<>>

C8_Witness ==
    /\ args.stream /\ args.output
    /\ pc = "exited"
    /\ exitCode = USER_ERROR

\* the device selection has run on an index that names no enumerated device
InvalidDeviceSelected ==
    /\ enumerated
    /\ ~args.list
    /\ pc \notin {"list", "select"}
    /\ args.device # NoDevice
    /\ (args.device < 0 \/ args.device >= numDevices)

\* nothing of the capture has begun
NoCaptureYet ==
    /\ recorder = "builder"
    /\ ~handlerSet
    /\ sample_rate = 0
    /\ framesRead = <<>>
    /\ ~fileOpened /\ wav_writer = "unset"
    /\ out = <<>>

C10_Status(f) ==
    CASE f \in {"lib_path"} -> 1
      [] f \in {"args_both", "args_neither", "device_index", "no_output"} -> 2
      [] f \in {"enumerate", "init", "start", "stop", "read"} -> 3
      [] f \in {"file_open", "wav_create", "wav_write", "wav_flush",
                "final_flush", "final_finalize", "stdout_write"} -> 4
      [] OTHER -> 0

\* C10: library path failures exit with 1, argument errors with 2, failures
\* of the capture source (enumerate, init, start, stop, read) with 3 and
\* output failures (file open, WAV create, write, flush, finalize, stdout
\* write) with 4.
C10_StatusPerKind ==
    (pc = "exited" /\ C10_Status(failure) # 0) => exitCode = C10_Status(failure)

IsPrefix(a, b) == Len(a) <= Len(b) /\ SubSeq(b, 1, Len(a)) = a

\* the frames whose record was started on stdout, with their flag: the routed
\* ones, and the one whose write failed part-way
RecordsStarted ==
    routed \o
    (IF failure = "stdout_write" /\ framesRead # <<>>
       THEN << [silence |-> silenceFlags[Len(framesRead)],
                samples |-> framesRead[Len(framesRead)]] >>
       ELSE <<>>)

\* the header and the records of the frames rs, as the stream format lays
\* them out
ProtocolBytes(rs) ==
    Concat(HeaderChunks(sample_rate)) \o
    Concat([i \in 1..Len(rs) |->
              Concat(FrameChunks(rs[i].samples, rs[i].silence, usize_bytes))])

\* the diagnostics the session must have printed by now
DiagnosticsDue ==
    (IF failure # "none" THEN {failure} ELSE {})
    \cup (IF ~IS_RUNNING THEN {"ctrlc"} ELSE {})
    \cup (IF stopCalls > 0 THEN {"stopping_silence"} ELSE {})
    \cup (IF recorder # "none" THEN {"using_library"} ELSE {})
    \cup (IF pc = "done" /\ args.list THEN {"device_list"} ELSE {})
    \cup (IF pc = "done" /\ ~args.list THEN {"done"} ELSE {})

\* C11: no diagnostic is ever written to the data channel: on the normal path
\* and on every error path stdout holds only bytes of the protocol header and
\* of frame records (nothing at all outside streaming mode), and every
\* diagnostic (device list, progress, interrupt notice, failure report) is on
\* stderr.
C11_StdoutOnlyProtocol ==
    /\ ~Streaming => out = <<>>
    /\ IsPrefix(out, ProtocolBytes(RecordsStarted))
    /\ DiagnosticsDue \subseteq diag

\* a streaming session interrupted by Ctrl-C whose write to stdout failed in
\* the middle of the second frame record
C11_Witness ==
    /\ Streaming
    /\ failure = "stdout_write"
    /\ Len(routed) = 1
    /\ Len(out) > Len(ProtocolBytes(routed))
    /\ {"ctrlc", "stdout_write", "starting"} \subseteq diag

\* the session of C12: frames of 512 samples at 16000 Hz, time-out 3000 ms
C12_Scenario ==
    /\ frame_length = 512
    /\ sample_rate = 16000
    /\ silence_threshold_ms = 3000

\* C12: at 16000 Hz with frames of 512 samples every frame lasts 32 ms; with
\* a time-out of 3000 ms and silent frames in a row counted from an
\* accumulator of 0, the silence stop fires on the frame that brings the
\* accumulator to 3008 ms, the 94th silent frame, and on no earlier frame.
C12_StopOn94thFrame ==
    C12_Scenario =>
        /\ FrameDurationMs(frame_length, sample_rate) = 32
        /\ silentRun < MaxSilentRun => silence_duration_ms = 32 * silentRun
        /\ stopCalls >= 1 <=> silentRun >= 94
        /\ stopCalls >= 1 => silentRun = 94 /\ silence_duration_ms = 3008
        /\ stopCalls <= 1

\* the 94th silent frame in a row has stopped the recorder at 3008 ms
C12_Witness ==
    /\ C12_Scenario
    /\ silentRun = 94
    /\ silence_duration_ms = 3008
    /\ stopCalls = 1
    /\ pc = "done"

\* every frame read so far is all zeros (the average starts at 0)
AllQuiet ==
    /\ framesRead # <<>>
    /\ \A i \in 1..Len(framesRead) : framesRead[i] = QuietFrame

\* C13, as stated: for a sequence of all-zero frames starting from an average
\* of 0, the first frame is classified as noise and every frame after the
\* first is classified as silence.
C13_ZeroFramesSilentAfterFirst ==
    AllQuiet =>
        /\ ~silenceFlags[1]
        /\ \A i \in 2..Len(framesRead) : silenceFlags[i]

\* C13, amended: for a sequence of all-zero frames starting from an average
\* of 0, every frame, the first and all later ones, is classified as noise:
\* the average and the threshold stay 0 and 0 < 0 is false; the accumulator
\* stays 0 and the silence stop never fires.
C13_ZeroFramesAlwaysNoise ==
    AllQuiet =>
        /\ \A i \in 1..Len(framesRead) : ~silenceFlags[i]
        /\ rms_moving_average = 0
        /\ silence_duration_ms = 0
        /\ silentRun = 0
        /\ stopCalls = 0

\* three all-zero frames have been read with a time-out set
C13_Witness ==
    /\ AllQuiet
    /\ Len(framesRead) = MaxFrames
    /\ silence_threshold_ms > 0
    /\ silenceFlags = [i \in 1..MaxFrames |-> FALSE]

\* the energy of the first frame read
FirstEnergy == calculate_rms(framesRead[1])

\* every frame read so far has the samples of the first, of nonzero energy
ConstantEnergy ==
    /\ framesRead # <<>>
    /\ FirstEnergy > 0
    /\ \A i \in 1..Len(framesRead) : framesRead[i] = framesRead[1]

\* the distance the fixed-point average may stay short of the energy it
\* approaches: one unit lost in each of the two truncated products
Slack == 2 * ALPHA[2]

\* what is left of the distance gap after n more frames: nine tenths of it
\* per frame, up to the two truncations
RECURSIVE Shrunk(_, _)
Shrunk(gap, n) ==
    IF n = 0 THEN gap
    ELSE Shrunk(((ALPHA[2] - ALPHA[1]) * gap) \div ALPHA[2] + 2, n - 1)

\* C14: for frames of one constant nonzero energy E, starting from an average
\* of 0, the moving average never exceeds E and comes closer to it by a
\* tenth of the remaining distance with each frame, every frame is
\* classified as noise, the accumulator stays 0 and the silence stop never
\* fires, whatever the time-out.
C14_ConstantEnergyIsNoise ==
    ConstantEnergy =>
        /\ rms_moving_average <= FirstEnergy
        /\ rms_moving_average > 0
        /\ FirstEnergy - rms_moving_average <= Shrunk(FirstEnergy, Len(framesRead))
        /\ \A i \in 1..Len(silenceFlags) : ~silenceFlags[i]
        /\ silence_duration_ms = 0
        /\ silentRun = 0
        /\ stopCalls = 0

\* MaxConstFrames frames of one nonzero energy have been read with a
\* time-out set, and the average has come within Slack of that energy
C14_Witness ==
    /\ ConstantEnergy
    /\ Len(framesRead) = MaxConstFrames
    /\ silence_threshold_ms > 0
    /\ FirstEnergy - rms_moving_average <= Slack
    /\ rms_moving_average <= FirstEnergy
    /\ stopCalls = 0

\* a frame is processed in this step: a read that does not fail
FrameProcessed == pc = "read" /\ failure' # "read"

\* C15: after every processed frame the accumulator is 0 if the frame was
\* classified as noise, whatever it held before, and its previous value plus
\* the frame's duration if the frame was classified as silence; so it always
\* equals the summed duration of the silent frames in a row that end at the
\* latest frame.
C15_AccumulatorIsTrailingSilence ==
    /\ [](silentRun < MaxSilentRun =>
            silence_duration_ms = silentRun * FrameDurationMs(frame_length, sample_rate))
    /\ [][FrameProcessed =>
            IF silentRun' = 0
              THEN silence_duration_ms' = 0
              ELSE silence_duration_ms' =
                     silence_duration_ms + FrameDurationMs(frame_length, sample_rate)]_vars

\* three silent frames of 32 ms in a row have been processed
C15_Witness ==
    /\ frame_length = FRAME_LENGTH
    /\ sample_rate = 16000
    /\ silentRun = 3
    /\ silence_duration_ms = 96
    /\ stopCalls = 0
    /\ pc = "loop"

\* the moving averages after each of the frames of energies es, from prior
RECURSIVE AveragesFrom(_, _)
AveragesFrom(prior, es) ==
    IF es = <<>> THEN <<>>
    ELSE LET avg == MovingAverage(Head(es), prior)
         IN  <<avg>> \o AveragesFrom(avg, Tail(es))

\* the length of a frame record and the place of the flag byte of the i-th
RecordLen == 2 + usize_bytes + 2 * FrameLen
FlagAt(i) == Len(Concat(HeaderChunks(sample_rate))) + (i - 1) * RecordLen + 2

\* C16: the detector updates before it compares: for a frame of energy e and
\* prior average a the new average is 0.1*e + 0.9*a, and the frame is
\* silence exactly when e < 0.9 * (0.1*e + 0.9*a), the threshold taken from
\* the average just updated, never from the prior one; the silence flag byte
\* of the frame's record is 1 exactly in that case.
C16_UpdateThenCompare ==
    LET es == [i \in 1..Len(framesRead) |-> calculate_rms(framesRead[i])]
        avgs == AveragesFrom(0, es)
    IN  /\ rms_moving_average = (IF avgs = <<>> THEN 0 ELSE avgs[Len(avgs)])
        /\ \A i \in 1..Len(framesRead) :
              silenceFlags[i] <=> es[i] < DynamicThreshold(avgs[i])
        /\ \A i \in 1..Len(routed) :
              /\ routed[i].silence = silenceFlags[i]
              /\ Streaming => out[FlagAt(i)] = (IF silenceFlags[i] THEN 1 ELSE 0)

\* a soft frame after a loud and a quiet one: below the threshold of the
\* prior average, not below the threshold of the updated one, emitted with
\* flag 0 after a record with flag 1
C16_Witness ==
    /\ Streaming
    /\ framesRead = <<LoudFrame, QuietFrame, SoftFrame>>
    /\ Len(routed) = 3
    /\ silenceFlags = <<FALSE, TRUE, FALSE>>
    /\ calculate_rms(SoftFrame) <
          DynamicThreshold(AveragesFrom(0, <<calculate_rms(LoudFrame), 0>>)[2])
    /\ out[FlagAt(2)] = 1
    /\ out[FlagAt(3)] = 0

\* the writes on the WAV sink that no flush has followed yet
RECURSIVE UnflushedWrites(_)
UnflushedWrites(ops) ==
    IF ops = <<>> THEN 0
    ELSE IF ops[Len(ops)] # "write" THEN 0
    ELSE 1 + UnflushedWrites(SubSeq(ops, 1, Len(ops) - 1))

\* C17: in file mode every frame's samples are written and the sink is
\* flushed within the same iteration: whenever the loop starts a blocking
\* read or exits, every sample written has been followed by a flush (one
\* flush per routed frame), and at any time at most the samples of the frame
\* being written are unflushed.
C17_FlushedEveryIteration ==
    /\ failure \notin {"wav_write", "wav_flush"} =>
          /\ UnflushedWrites(wavOps) = 0
          /\ FileMode => Cardinality(OpIndices("write")) = FrameLen * Len(routed)
    /\ pc \in {"loop", "read"} /\ FileMode =>
          /\ Cardinality(OpIndices("flush")) = Len(routed)
          /\ \A i \in 1..Len(routed) : wavOps[i * (FrameLen + 1)] = "flush"
    /\ UnflushedWrites(wavOps) <= FrameLen
    /\ Len(wavSamples) = Cardinality(OpIndices("write"))
    /\ ~FileMode => wavOps = <<>>

\* two frames have been written and flushed and the loop is about to block
\* in the next read
C17_Witness ==
    /\ FileMode
    /\ pc = "read"
    /\ Len(routed) = 2
    /\ Len(wavSamples) = 2 * FrameLen
    /\ Cardinality(OpIndices("flush")) = 2
    /\ wavOps[Len(wavOps)] = "flush"

\* what a session does with the frames fs, whatever its output mode: the
\* samples of the frames it hands to the routing step and the index of the
\* frame on which it calls stop() (0 if none), from the average avg and the
\* accumulator acc, the frames before fs being n
RECURSIVE Replay(_, _, _, _)
Replay(fs, avg, acc, n) ==
    IF fs = <<>> THEN [samples |-> <<>>, stopAt |-> 0]
    ELSE LET rms == calculate_rms(Head(fs))
             is_silence == rms < DynamicThreshold(MovingAverage(rms, avg))
             dur == FrameDurationMs(Len(Head(fs)), sample_rate)
             acc2 == IF is_silence THEN acc + dur ELSE 0
         IN  IF is_silence /\ silence_threshold_ms > 0 /\ acc2 >= silence_threshold_ms
               THEN [samples |-> <<>>, stopAt |-> n + 1]
               ELSE LET rest == Replay(Tail(fs), MovingAverage(rms, avg), acc2, n + 1)
                    IN  [samples |-> Head(fs) \o rest.samples, stopAt |-> rest.stopAt]

\* the samples of the frame records on stdout, with the width of the length
\* field as written
StreamSamples ==
    LET hdr == Len(Concat(HeaderChunks(sample_rate)))
        nrec == (Len(out) - hdr) \div RecordLen
    IN  [k \in 1..(nrec * FrameLen) |->
           ReadI16(out, hdr + ((k - 1) \div FrameLen) * RecordLen
                            + 2 + usize_bytes + 2 * ((k - 1) % FrameLen) + 1)]

\* the session is between two frames or past the loop, and nothing failed
BetweenFrames == failure = "none" /\ pc \in {"loop", "read", "finalize", "done"}

\* C18: the file mode and the streaming mode are replicas of one session:
\* for the same frames, sample rate and time-out, the samples written to the
\* WAV sink are the samples of the frame records emitted in streaming mode,
\* in the same order, and both modes call stop() on the same frame.
C18_ModesAreReplicas ==
    LET session == Replay(framesRead, 0, 0, 0)
    IN  /\ session.stopAt \in {0, Len(framesRead)}
        /\ stopCalls = (IF session.stopAt > 0 THEN 1 ELSE 0)
        /\ (BetweenFrames /\ FileMode) => wavSamples = session.samples
        /\ (BetweenFrames /\ Streaming /\ headerWrites = 1) =>
              /\ (Len(out) - Len(Concat(HeaderChunks(sample_rate)))) % RecordLen = 0
              /\ StreamSamples = session.samples

\* a file session that wrote a loud and a quiet frame and called stop() on
\* the third frame, a quiet one
C18_Witness ==
    /\ FileMode
    /\ pc = "done"
    /\ framesRead = <<LoudFrame, QuietFrame, QuietFrame>>
    /\ stopCalls = 1
    /\ wavSamples = LoudFrame \o QuietFrame
    /\ Replay(framesRead, 0, 0, 0).stopAt = 3

\* what may follow a stop() on the WAV sink: the final flush and finalize
FinalSinkStep ==
    \/ wavOps' = wavOps
    \/ wavOps' = Append(wavOps, "flush")
    \/ wavOps' = wavOps \o <<"flush", "finalize">>

\* C19: stop() is called at most once in a session; after a stop() caused by
\* silence the session reads no further frame and emits no further frame
\* data: only the final flush and finalize of the WAV sink can follow.
C19_NothingAfterStop ==
    /\ [](stopCalls <= 1)
    /\ [](stopCalls = 1 => pc \in {"finalize", "done", "exited"})
    /\ [][stopCalls = 1 =>
            /\ stopCalls' = 1
            /\ framesRead' = framesRead
            /\ routed' = routed
            /\ out' = out
            /\ wavSamples' = wavSamples
            /\ FinalSinkStep]_vars

\* a streaming session that emitted one frame, called stop() on the second
\* and ended normally
C19_Witness ==
    /\ Streaming
    /\ stopCalls = 1
    /\ pc = "done"
    /\ Len(framesRead) = 2
    /\ Len(routed) = 1
    /\ Len(out) = Len(Concat(HeaderChunks(sample_rate))) + RecordLen
    /\ "done" \in diag

\* C20: with a silence time-out above 0, if reads keep succeeding and from
\* some point on every frame is classified as silence, the session eventually
\* calls stop(), leaves the capture loop and runs finalization to its end,
\* for every positive frame length and sample rate, those with a truncated
\* frame duration of 0 ms included.
C20_SilenceEventuallyStops ==
    (/\ silence_threshold_ms > 0
     /\ [](failure # "read")
     /\ <>[](silentRun > 0))
       => <>(stopCalls = 1 /\ pc \in {"done", "exited"})

\* the same for the sessions whose frames last at least 1 ms
PositiveDurationStops ==
    (/\ silence_threshold_ms > 0
     /\ FrameDurationMs(frame_length, sample_rate) > 0
     /\ [](failure # "read")
     /\ <>[](silentRun > 0))
       => <>(stopCalls = 1 /\ pc \in {"done", "exited"})

=============================================================================
